---- MODULE Spec2Model ----
(***************************************************************************)
(* JournalOwl MCP server: the protocol front-end (JournalOwlMcpServer),    *)
(* the tool and resource catalogs with their handlers, and the transport   *)
(* client (JournalOwlClient) with its response interceptor.                *)
(*                                                                         *)
(* Conventions                                                             *)
(*  - A JavaScript object is a record; a property that is undefined is a   *)
(*    field that is absent (which is also how it leaves on the wire).      *)
(*  - An optional string that is read with || or ! is a string, with       *)
(*    UNDEFINED standing for undefined.                                    *)
(*  - A text is a sequence of string pieces, in the order the template     *)
(*    literals and concatenations of the source produce them.              *)
(*  - The outcome of a call is Return(v) or Throw(name, message).          *)
(*  - A sentiment score is held in hundredths (0.3 is 30).                 *)
(***************************************************************************)
EXTENDS Integers, Sequences, FiniteSets, TLC

VARIABLES
    phase,          \* "boot", "connecting", "running", "exited": the process
    env,            \* process.env: JOURNALOWL_API_KEY, JOURNALOWL_API_URL
    client,         \* JournalOwlMcpServer.client: the axios configuration
    exitCode,       \* status given to process.exit, -1 while running
    clientsMade,    \* calls of createClient so far
    handlers,       \* TRUE once setupHandlers and setupErrorHandling have run
    connection,     \* "none", "open", "closed": the protocol connection
    sig,            \* "none", "closing": SIGINT handler not run / awaiting close()
    pc,             \* "idle", "awaitHttp", "responded": the request in hand
    req,            \* the protocol request in hand, [kind |-> "none"] before the first
    http,           \* the HTTP request the client sent for it
    httpCount,      \* HTTP requests sent while handling it
    reply,          \* what axios settled the HTTP request with
    clientResult,   \* outcome of the client method the handler called
    handlerResult,  \* outcome of handleToolCall / handleResourceRead
    resp            \* what the front-end handed back to the protocol runtime

vars == <<phase, env, client, exitCode, clientsMade, handlers, connection, sig,
          pc, req, http, httpCount, reply, clientResult, handlerResult, resp>>

\* the process, as opposed to the request in hand
procVars == <<phase, env, client, exitCode, clientsMade, handlers, connection, sig>>
requestVars == <<pc, req, http, httpCount, reply, clientResult, handlerResult, resp>>

---------------------------------------------------------------------------
(* Bounds of the model *)

\* entries a backend page or search result carries at most
MaxPage == 2
\* largest total the backend reports in a pagination record
MaxTotal == 3
\* largest offset a list_entries call asks for
MaxOffset == 2
\* scores are drawn within this distance of 0 and of each threshold
ScoreMargin == 2

---------------------------------------------------------------------------
(* JavaScript values *)

UNDEFINED == "<undefined>"
Falsy(s) == s \in {UNDEFINED, ""}
\* a || b on optional strings
OrElse(a, b) == IF Falsy(a) THEN b ELSE a
\* obj.f on a string-valued property
Prop(obj, f) == IF f \in DOMAIN obj THEN obj[f] ELSE UNDEFINED
Has(obj, f) == f \in DOMAIN obj

None == [t |-> "none"]
Return(v) == [t |-> "return", v |-> v]
Throw(name, message) == [t |-> "throw", name |-> name, message |-> message]
ReturnUndefined == [t |-> "return", undefined |-> TRUE]
IsUndefined(r) == r.t = "return" /\ Has(r, "undefined")

\* reading property f of undefined
ReadOfUndefined(f) ==
    Throw("TypeError", <<"Cannot read properties of undefined (reading '", f, "')">>)

Range(s) == {s[i] : i \in 1..Len(s)}
\* sub occurs in s as a run of consecutive pieces
Contains(s, sub) ==
    \E i \in 0..(Len(s) - Len(sub)) : SubSeq(s, i + 1, i + Len(sub)) = sub
StartsWith(s, sub) ==
    Len(s) >= Len(sub) /\ SubSeq(s, 1, Len(sub)) = sub

RECURSIVE Join(_, _)
\* Array.prototype.join on an array of texts
Join(texts, sep) ==
    IF Len(texts) = 0 THEN <<>>
    ELSE IF Len(texts) = 1 THEN texts[1]
    ELSE texts[1] \o <<sep>> \o Join(Tail(texts), sep)

\* tags.join(', ') on an array of strings
JoinStrings(strs, sep) == Join([i \in 1..Len(strs) |-> <<strs[i]>>], sep)

\* Date.prototype.toLocaleDateString of new Date(d)
LocaleDate(d) ==
    CASE d = "2024-01-15" -> "1/15/2024"
      [] d = "2024-01-16" -> "1/16/2024"
      [] d = "2024-01-08" -> "1/8/2024"
      [] d = "2024-01-14" -> "1/14/2024"
      [] d = "2023-06-01" -> "6/1/2023"
      [] OTHER -> "Invalid Date"

---------------------------------------------------------------------------
(* Transport client: construction *)

DEFAULT_BASE_URL == "https://journalai-backend-production.up.railway.app/api/v1"
DEFAULT_TIMEOUT == 30000

\* new JournalOwlClient(config)
NewClient(config) ==
    IF Falsy(Prop(config, "apiKey"))
    THEN Throw("Error", <<"API key is required. Set JOURNALOWL_API_KEY environment variable.">>)
    ELSE Return([baseURL |-> OrElse(Prop(config, "baseUrl"), DEFAULT_BASE_URL),
                 timeout |-> IF Has(config, "timeout") /\ config.timeout # 0
                             THEN config.timeout ELSE DEFAULT_TIMEOUT,
                 apiKey  |-> config.apiKey])

\* createClient() that leaves the URL of the environment unread
createClient_DefaultUrl(e) ==
    NewClient([apiKey |-> Prop(e, "JOURNALOWL_API_KEY")])

\* createClient() as the server calls it: without a config argument
createClient(e) ==
    LET apiKey == Prop(e, "JOURNALOWL_API_KEY") IN
    IF Falsy(apiKey)
    THEN Throw("Error", <<"JOURNALOWL_API_KEY environment variable is required. ",
                          "Get your API key from JournalOwl Settings > API Keys.">>)
    ELSE NewClient(
           IF Has(e, "JOURNALOWL_API_URL")
           THEN [apiKey |-> apiKey, baseUrl |-> e.JOURNALOWL_API_URL]
           ELSE [apiKey |-> apiKey])

\* the methods class JournalOwlClient defines
ClientMethods ==
    {"listEntries", "getEntry", "createEntry", "searchEntries",
     "listWeeklyReviews", "getWeeklyReview", "getUserProfile", "getWritingStyle"}

---------------------------------------------------------------------------
(* Transport client: the HTTP request each method sends *)

HttpGet(path, params) == [method |-> "GET", path |-> path, payload |-> params]
HttpPost(path, body) == [method |-> "POST", path |-> path, payload |-> body]

\* client.<method>(arg): what goes on the wire. arg is the method's argument
\* (getEntry: [entryId, includeAnalysis]; getWeeklyReview: [reviewId]).
ClientRequest(method, arg) ==
    CASE method = "listEntries"       -> HttpGet(<<"/mcp/entries">>, arg)
      [] method = "getEntry"          ->
            HttpGet(<<"/mcp/entries/", arg.entryId>>,
                    [include_analysis |-> arg.includeAnalysis])
      [] method = "createEntry"       -> HttpPost(<<"/mcp/entries">>, arg)
      [] method = "searchEntries"     -> HttpPost(<<"/mcp/entries/search">>, arg)
      [] method = "listWeeklyReviews" -> HttpGet(<<"/mcp/reviews/weekly">>, arg)
      [] method = "getWeeklyReview"   ->
            HttpGet(<<"/mcp/reviews/weekly/", arg.reviewId>>, <<>>)
      [] method = "getUserProfile"    -> HttpGet(<<"/mcp/user/profile">>, <<>>)
      [] method = "getWritingStyle"   -> HttpGet(<<"/mcp/user/style">>, <<>>)

\* the property of data that the method returns; "" when it returns data itself
UnwrapField(method) ==
    CASE method = "getEntry"          -> "entry"
      [] method = "createEntry"       -> "entry"
      [] method = "getWeeklyReview"   -> "review"
      [] method = "getUserProfile"    -> "profile"
      [] method = "getWritingStyle"   -> "style"
      [] OTHER                        -> ""

---------------------------------------------------------------------------
(* Transport client: the response interceptor *)

\* An axios settlement is either [ok |-> TRUE, status, data] (a 2xx response,
\* data being the envelope) or an AxiosError [ok |-> FALSE, message] with
\* `response` present when the backend answered and requestSent TRUE when the
\* request left (error.request).

UnreachableMessage ==
    <<"JournalOwl API is unreachable. Please check your network connection.">>

\* error.response.data?.message
BodyMessage(error) ==
    IF Has(error.response, "data") THEN Prop(error.response.data, "message")
    ELSE UNDEFINED

\* the interceptor with its first two tests in the other order
InterceptError_RequestFirst(error) ==
    IF error.requestSent
    THEN Throw("Error", UnreachableMessage)
    ELSE IF Has(error, "response")
    THEN Throw("Error",
               <<"JournalOwl API Error (", ToString(error.response.status), "): ",
                 OrElse(BodyMessage(error), error.message)>>)
    ELSE Throw("Error", <<"Request failed: ", error.message>>)

\* the rejected handler of interceptors.response.use
InterceptError(error) ==
    IF Has(error, "response")
    THEN Throw("Error",
               <<"JournalOwl API Error (", ToString(error.response.status), "): ",
                 OrElse(BodyMessage(error), error.message)>>)
    ELSE IF error.requestSent
    THEN Throw("Error", UnreachableMessage)
    ELSE Throw("Error", <<"Request failed: ", error.message>>)

\* response.data.data!  (the ! is erased at run time), then the property read
Unwrap(method, envelope) ==
    IF UnwrapField(method) = ""
    THEN IF Has(envelope, "data") THEN Return(envelope.data) ELSE ReturnUndefined
    ELSE IF ~Has(envelope, "data") THEN ReadOfUndefined(UnwrapField(method))
    ELSE IF Has(envelope.data, UnwrapField(method))
         THEN Return(envelope.data[UnwrapField(method)])
         ELSE ReturnUndefined

\* what `await this.client.get/post(...)` followed by the return statement gives
ClientFinish(method, settled) ==
    IF settled.ok THEN Unwrap(method, settled.data) ELSE InterceptError(settled)

---------------------------------------------------------------------------
(* Tool catalog: the client call each handler makes *)

\* { f: args.f, ... } with the undefined properties left out
Pick(args, fields) == [f \in (DOMAIN args \cap fields) |-> args[f]]

\* a week argument that is ignored
ReviewIdOf_AlwaysLatest(args) == "latest"

\* line 468: args.week || 'latest'
ReviewIdOf(args) == OrElse(Prop(args, "week"), "latest")

\* the first statement of every tool handler: client.<method>(<arg>)
ToolClientCall(toolName, args) ==
    CASE toolName = "journal_create_entry" ->
            [method |-> "createEntry",
             arg |-> Pick(args, {"content", "mood", "tags", "date"})]
      [] toolName = "journal_finalize_entry" ->
            [method |-> "finalizeEntry",
             arg |-> [entryId |-> Prop(args, "entry_id")]]
      [] toolName = "journal_list_entries" ->
            [method |-> "listEntries",
             arg |-> Pick(args, {"limit", "offset", "from_date", "to_date",
                                 "status", "tags"})]
      [] toolName = "journal_get_entry" ->
            [method |-> "getEntry",
             arg |-> [entryId |-> Prop(args, "entry_id"),
                      includeAnalysis |->
                          ~(Has(args, "include_analysis") /\ args.include_analysis = FALSE)]]
      [] toolName = "journal_search" ->
            [method |-> "searchEntries", arg |-> Pick(args, {"query", "limit"})]
      [] toolName = "journal_get_weekly_review" ->
            [method |-> "getWeeklyReview",
             arg |-> [reviewId |-> ReviewIdOf(args)]]
      [] toolName = "journal_get_writing_style" ->
            [method |-> "getWritingStyle", arg |-> <<>>]

\* the first statement of each resource handler
ResourceClientCall(uri) ==
    CASE uri = "journalowl://user/profile" ->
            [method |-> "getUserProfile", arg |-> <<>>]
      [] uri = "journalowl://user/recent-entries" ->
            [method |-> "listEntries", arg |-> [limit |-> 5]]

\* Calling client[method](arg): a method the class does not define is not a
\* function, and the call throws before anything is sent.
InvokeClient(call) ==
    IF call.method \in ClientMethods
    THEN Return(ClientRequest(call.method, call.arg))
    ELSE Throw("TypeError", <<"client.", call.method, " is not a function">>)

---------------------------------------------------------------------------
(* Tool catalog: rendering *)

TextContent(text) == [content |-> <<[type |-> "text", text |-> text]>>]

\* the preview taken without cutting
Substring0_Whole(str, n) == str

\* String.prototype.substring(0, n)
Substring0(str, n) == SubSeq(str, 1, IF Len(str) < n THEN Len(str) ELSE n)

Abs(n) == IF n < 0 THEN -n ELSE n
\* Number.prototype.toFixed(2) of a score held in hundredths
ToFixed2(s) ==
    (IF s < 0 THEN <<"-">> ELSE <<>>) \o
    <<ToString(Abs(s) \div 100), ".", ToString((Abs(s) % 100) \div 10),
      ToString(Abs(s) % 10)>>

\* tags.join(', ') || fallback
TagsOr(tags, fallback) ==
    IF Len(tags) = 0 THEN <<fallback>> ELSE JoinStrings(tags, ", ")

\* insights.map(i => `- ${i}`).join('\n')
Bullets(items) == Join([i \in 1..Len(items) |-> <<"- ", items[i]>>], "\n")

SentimentThreshold == 30

\* the thresholds taken as inclusive
SentimentLabel_Inclusive(sentiment) ==
    IF sentiment >= SentimentThreshold THEN "Positive"
    ELSE IF sentiment <= -SentimentThreshold THEN "Negative"
    ELSE "Neutral"

\* lines 371-372: the label of a score
SentimentLabel(sentiment) ==
    IF sentiment > SentimentThreshold THEN "Positive"
    ELSE IF sentiment < -SentimentThreshold THEN "Negative"
    ELSE "Neutral"

---------------------------------------------------------------------------
(* Tool handlers: what each does with the value its client call returned.  *)
(* r is that outcome, a Return; a Throw never reaches these (the await     *)
(* rethrows it, see AfterAwait).                                           *)

handleCreateEntry(args, r) ==
    IF IsUndefined(r) THEN ReadOfUndefined("entry")
    ELSE IF ~Has(r.v, "entry") THEN ReadOfUndefined("id")
    ELSE
      LET entry == r.v.entry
          text == <<"Journal entry created!\n\n",
                    "**ID:** ", entry.id, "\n",
                    "**Title:** ", entry.title, "\n",
                    "**Status:** ", entry.status,
                    " (use journal_finalize_entry to generate AI analysis)\n",
                    "**Date:** ", LocaleDate(entry.date), "\n",
                    "**Mood:** ", OrElse(Prop(entry, "mood"), "Not specified"), "\n",
                    "**Tags:** ">> \o TagsOr(entry.tags, "None")
          settings ==
              IF Has(r.v, "metadata")
              THEN <<"\n\n**Settings used:**\n",
                     "- Timezone: ", r.v.metadata.timezone, "\n",
                     "- Language: ", r.v.metadata.language, "\n",
                     "- Writing Style: ", r.v.metadata.writingStyle>>
              ELSE <<>>
      IN Return(TextContent(text \o settings))

handleFinalizeEntry(args, r) ==
    IF IsUndefined(r) THEN ReadOfUndefined("entry")
    ELSE IF ~Has(r.v, "entry") THEN ReadOfUndefined("id")
    ELSE
      LET entry == r.v.entry
          text == <<"Entry finalized with AI analysis!\n\n",
                    "**ID:** ", entry.id, "\n",
                    "**Title:** ", entry.title, "\n",
                    "**Status:** ", entry.status>>
          review ==
              IF Has(r.v, "miniReview")
              THEN <<"\n\n**AI Analysis:**\n",
                     "- **Main Topic:** ", r.v.miniReview.mainTopic, "\n",
                     "- **Sentiment:** ", r.v.miniReview.sentiment.label, " (">>
                   \o ToFixed2(r.v.miniReview.sentiment.score) \o <<")\n", "- **Themes:** ">>
                   \o JoinStrings(r.v.miniReview.themes, ", ")
                   \o (IF ~Falsy(Prop(r.v.miniReview, "keyInsight"))
                       THEN <<"\n\n**Key Insight:**\n", r.v.miniReview.keyInsight>>
                       ELSE <<>>)
              ELSE <<>>
          insights ==
              IF Has(entry, "analysis") /\ Has(entry.analysis, "insights")
                 /\ Len(entry.analysis.insights) > 0
              THEN <<"\n\n**Insights:**\n">> \o Bullets(entry.analysis.insights)
              ELSE <<>>
      IN Return(TextContent(text \o review \o insights))

MoreHint == "\n\nMore entries available. Use offset="

\* the hint condition worked out from the total instead of read
HasMoreOf_Derived(result) == Len(result.entries) < result.pagination.total

\* line 327: the condition of the next-offset hint, read off the backend's record
HasMoreOf(result) == result.pagination.hasMore

\* the `- **title** (date)\n  ID: ... | Status: ... | Tags: ...` item of the list
ListItem(entry) ==
    <<"- **", entry.title, "** (", LocaleDate(entry.date), ")\n",
      "  ID: ", entry.id, " | Status: ", entry.status, " | Tags: ">>
    \o TagsOr(entry.tags, "none")

handleListEntries(args, r) ==
    IF IsUndefined(r) THEN ReadOfUndefined("entries")
    ELSE IF Len(r.v.entries) = 0
    THEN Return(TextContent(<<"No journal entries found matching your criteria.">>))
    ELSE
      LET result == r.v
          entriesList ==
              Join([i \in 1..Len(result.entries) |-> ListItem(result.entries[i])], "\n\n")
          offset == IF Has(args, "offset") THEN args.offset ELSE 0
      IN Return(TextContent(
            <<"Found ", ToString(result.pagination.total), " entries (showing ",
              ToString(Len(result.entries)), "):\n\n">>
            \o entriesList
            \o (IF HasMoreOf(result)
                THEN <<MoreHint, ToString(offset + Len(result.entries)), " to see more.">>
                ELSE <<>>)))

handleGetEntry(args, r) ==
    IF IsUndefined(r) THEN ReadOfUndefined("title")
    ELSE
      LET entry == r.v
          head == <<"# ", entry.title, "\n\n",
                    "**Date:** ", LocaleDate(entry.date), "\n",
                    "**Mood:** ", OrElse(Prop(entry, "mood"), "Not specified"), "\n",
                    "**Tags:** ">> \o TagsOr(entry.tags, "None")
                  \o <<"\n", "**Status:** ", entry.status, "\n\n", "---\n\n">>
                  \o entry.content
          analysis ==
              IF ~Has(entry, "analysis") THEN <<>>
              ELSE <<"\n\n---\n\n## AI Analysis\n\n">>
                   \o (IF Has(entry.analysis, "sentiment")
                       THEN <<"**Sentiment:** ", SentimentLabel(entry.analysis.sentiment), " (">>
                            \o ToFixed2(entry.analysis.sentiment) \o <<")\n\n">>
                       ELSE <<>>)
                   \o (IF Has(entry.analysis, "themes") /\ Len(entry.analysis.themes) > 0
                       THEN <<"**Themes:** ">> \o JoinStrings(entry.analysis.themes, ", ")
                            \o <<"\n\n">>
                       ELSE <<>>)
                   \o (IF Has(entry.analysis, "insights") /\ Len(entry.analysis.insights) > 0
                       THEN <<"**Insights:**\n">> \o Bullets(entry.analysis.insights)
                       ELSE <<>>)
      IN Return(TextContent(head \o analysis))

PreviewLength == 150

SearchItem(entry) ==
    <<"- **", entry.title, "** (", LocaleDate(entry.date), ")\n",
      "  ID: ", entry.id, "\n", "  Preview: ">>
    \o Substring0(entry.content, PreviewLength) \o <<"...">>

handleSearchEntries(args, r) ==
    IF IsUndefined(r) THEN ReadOfUndefined("count")
    ELSE IF r.v.count = 0
    THEN Return(TextContent(<<"No entries found matching \"", Prop(args, "query"), "\".">>))
    ELSE Return(TextContent(
            <<"Found ", ToString(r.v.count), " entries for \"", Prop(args, "query"), "\":\n\n">>
            \o Join([i \in 1..Len(r.v.results) |-> SearchItem(r.v.results[i])], "\n\n")))

handleGetWeeklyReview(args, r) ==
    IF IsUndefined(r) THEN ReadOfUndefined("weekStart")
    ELSE
      LET review == r.v IN
      Return(TextContent(
        <<"# Weekly Review\n\n",
          "**Period:** ", LocaleDate(review.weekStart), " - ", LocaleDate(review.weekEnd), "\n",
          "**Entries:** ", ToString(review.entriesCount), "\n\n",
          "## Summary\n\n", review.summary, "\n\n",
          "## Emotional Trend\n\n", review.emotionalTrend, "\n\n",
          "## Key Themes\n\n">> \o Bullets(review.themes)
        \o <<"\n\n", "## Insights\n\n">> \o Bullets(review.insights)))

handleGetWritingStyle(r) ==
    IF IsUndefined(r) THEN ReadOfUndefined("currentStyle")
    ELSE
      LET style == r.v IN
      Return(TextContent(
        <<"# Your Writing Style\n\n",
          "**Current Style:** ", style.currentStyle, "\n\n",
          "**Description:** ", style.styleDescription, "\n\n",
          "**Voice Tone:** ", style.voiceTone, "\n\n",
          "## Suggestions for Your Journaling\n\n">> \o Bullets(style.suggestions)))

---------------------------------------------------------------------------
(* Resource handlers *)

ProfileUri == "journalowl://user/profile"
RecentEntriesUri == "journalowl://user/recent-entries"

ResourceContents(uri, text) ==
    [contents |-> <<[uri |-> uri, mimeType |-> "text/plain", text |-> text]>>]

handleProfileResource(r) ==
    IF IsUndefined(r) THEN ReadOfUndefined("username")
    ELSE
      LET profile == r.v IN
      Return(ResourceContents(ProfileUri,
        <<"JournalOwl User Profile\n=======================\n\n",
          "Username: ", profile.username, "\n",
          "Email: ", profile.email, "\n",
          "Timezone: ", profile.timezone, "\n\n",
          "Journaling Stats:\n",
          "- Journaling since: ", LocaleDate(profile.journalingSince), "\n",
          "- Total entries: ", ToString(profile.totalEntries), "\n",
          "- Current streak: ", ToString(profile.currentStreak), " days\n\n",
          "Preferences:\n",
          "- Writing style: ", OrElse(Prop(profile, "preferredWritingStyle"), "Default"),
          "\n\nUse this context to personalize your responses when helping with journaling.">>))

RecentItem(entry) ==
    <<"- ", entry.title, " (", LocaleDate(entry.date), ")\n",
      "  Mood: ", OrElse(Prop(entry, "mood"), "Not specified"), "\n",
      "  Tags: ">> \o TagsOr(entry.tags, "None") \o <<"\n", "  ID: ", entry.id>>

handleRecentEntriesResource(r) ==
    IF IsUndefined(r) THEN ReadOfUndefined("entries")
    ELSE IF Len(r.v.entries) = 0
    THEN Return(ResourceContents(RecentEntriesUri,
            <<"No recent journal entries found. The user may be new to journaling.">>))
    ELSE Return(ResourceContents(RecentEntriesUri,
            <<"Recent Journal Entries (Last ", ToString(Len(r.v.entries)), ")\n",
              "========================================\n\n">>
            \o Join([i \in 1..Len(r.v.entries) |-> RecentItem(r.v.entries[i])], "\n\n")
            \o <<"\n\nUse these entries as context when helping the user with their journaling.\n",
                 "You can use journal_get_entry with an ID to read the full content.">>))

---------------------------------------------------------------------------
(* Catalogs and dispatch *)

\* the catalog as the README lists it, without the finalize tool
getAllTools_NoFinalize ==
    <<[name |-> "journal_create_entry",      required |-> {"content"}],
      [name |-> "journal_list_entries",      required |-> {}],
      [name |-> "journal_get_entry",         required |-> {"entry_id"}],
      [name |-> "journal_search",            required |-> {"query"}],
      [name |-> "journal_get_weekly_review", required |-> {}],
      [name |-> "journal_get_writing_style", required |-> {}]>>

\* getAllTools(): the descriptors, by name, in the order returned
getAllTools ==
    <<[name |-> "journal_create_entry",      required |-> {"content"}],
      [name |-> "journal_finalize_entry",    required |-> {"entry_id"}],
      [name |-> "journal_list_entries",      required |-> {}],
      [name |-> "journal_get_entry",         required |-> {"entry_id"}],
      [name |-> "journal_search",            required |-> {"query"}],
      [name |-> "journal_get_weekly_review", required |-> {}],
      [name |-> "journal_get_writing_style", required |-> {}]>>

\* getAllResources()
getAllResources ==
    <<[uri |-> "journalowl://user/profile", name |-> "User Profile",
       mimeType |-> "text/plain"],
      [uri |-> "journalowl://user/recent-entries", name |-> "Recent Journal Entries",
       mimeType |-> "text/plain"]>>

\* the case labels of the switch in handleToolCall
ToolCases ==
    {"journal_create_entry", "journal_finalize_entry", "journal_list_entries",
     "journal_get_entry", "journal_search", "journal_get_weekly_review",
     "journal_get_writing_style"}

\* the case labels of the switch in handleResourceRead
ResourceCases == {"journalowl://user/profile", "journalowl://user/recent-entries"}

\* the switch without its default: an unmatched name runs into the last case
handleToolCallBegin_NoDefault(toolName, args) ==
    InvokeClient(ToolClientCall(
        IF toolName \in ToolCases THEN toolName ELSE "journal_get_writing_style", args))

\* handleToolCall up to the handler's await: Return(the HTTP request sent), or
\* the error thrown before anything is sent
handleToolCallBegin(toolName, args) ==
    IF toolName \in ToolCases
    THEN InvokeClient(ToolClientCall(toolName, args))
    ELSE Throw("Error", <<"Unknown tool: ", toolName>>)

\* `await client.<method>(...)` inside a handler: a rejection is rethrown, a value
\* goes on to the rest of the handler
handleToolCallEnd(toolName, args, r) ==
    IF r.t = "throw" THEN r
    ELSE CASE toolName = "journal_create_entry"      -> handleCreateEntry(args, r)
           [] toolName = "journal_finalize_entry"    -> handleFinalizeEntry(args, r)
           [] toolName = "journal_list_entries"      -> handleListEntries(args, r)
           [] toolName = "journal_get_entry"         -> handleGetEntry(args, r)
           [] toolName = "journal_search"            -> handleSearchEntries(args, r)
           [] toolName = "journal_get_weekly_review" -> handleGetWeeklyReview(args, r)
           [] toolName = "journal_get_writing_style" -> handleGetWritingStyle(r)

\* the switch without its default: an unmatched uri runs into the last case
handleResourceReadBegin_NoDefault(uri) ==
    InvokeClient(ResourceClientCall(
        IF uri \in ResourceCases THEN uri ELSE "journalowl://user/recent-entries"))

handleResourceReadBegin(uri) ==
    IF uri \in ResourceCases
    THEN InvokeClient(ResourceClientCall(uri))
    ELSE Throw("Error", <<"Unknown resource: ", uri>>)

handleResourceReadEnd(uri, r) ==
    IF r.t = "throw" THEN r
    ELSE CASE uri = "journalowl://user/profile"        -> handleProfileResource(r)
           [] uri = "journalowl://user/recent-entries" -> handleRecentEntriesResource(r)

---------------------------------------------------------------------------
(* Protocol front-end *)

\* error instanceof Error
InstanceOfError(e) == e.name \in {"Error", "TypeError"}

\* the catch with its instanceof test inverted
McpInternalError_UnknownError(label, subject, e) ==
    [t |-> "error", code |-> "InternalError",
     message |-> <<label, subject, " failed: ">>
                 \o (IF InstanceOfError(e) THEN <<"Unknown error">> ELSE e.message)]

\* `${label} ${subject} failed: ${message}` thrown as McpError(InternalError)
McpInternalError(label, subject, e) ==
    [t |-> "error", code |-> "InternalError",
     message |-> <<label, subject, " failed: ">>
                 \o (IF InstanceOfError(e) THEN e.message ELSE <<"Unknown error">>)]

\* the try/catch of the CallToolRequestSchema handler around handleToolCall
CallToolResponse(name, outcome) ==
    IF outcome.t = "return" THEN [t |-> "result", result |-> outcome.v]
    ELSE McpInternalError("Tool ", name, outcome)

\* the try/catch of the ReadResourceRequestSchema handler
ReadResourceResponse(uri, outcome) ==
    IF outcome.t = "return" THEN [t |-> "result", result |-> outcome.v]
    ELSE McpInternalError("Resource ", uri, outcome)

\* request.params.arguments || {}
ArgsOf(request) == IF Has(request, "arguments") THEN request.arguments ELSE <<>>

---------------------------------------------------------------------------
(* The backend and the protocol runtime: the inputs *)

\* a string of n characters
Chars(n) == [i \in 1..n |-> ToString(i % 10)]

Merge(a, b) ==
    [f \in (DOMAIN a \cup DOMAIN b) |-> IF f \in DOMAIN b THEN b[f] ELSE a[f]]
\* the records that have field f with a value of S, or lack it
Optional(f, S) == {<<>>} \cup {[x \in {f} |-> v] : v \in S}

Dates == <<"2024-01-15", "2024-01-16", "2024-01-14">>
Statuses == <<"completed", "in_progress", "draft">>

\* the i-th entry the backend holds, its content n characters long
EntryAt(i, n) ==
    Merge([id |-> "e" \o ToString(i), title |-> "Entry " \o ToString(i),
           content |-> Chars(n),
           tags |-> IF i % 2 = 1 THEN <<"work", "goals">> ELSE <<>>,
           status |-> Statuses[((i - 1) % 3) + 1],
           date |-> Dates[((i - 1) % 3) + 1],
           createdAt |-> "2024-01-15T08:00:00Z", updatedAt |-> "2024-01-15T09:00:00Z"],
          IF i % 2 = 1 THEN [mood |-> "happy"] ELSE <<>>)

\* the first n entries
Page(n) == [i \in 1..n |-> EntryAt(i, 3)]

Scores ==
    {c + d : c \in {-SentimentThreshold, 0, SentimentThreshold},
             d \in (-ScoreMargin)..ScoreMargin} \cup {-50, 10, 50}

Analyses ==
    {[themes |-> <<"work">>, insights |-> <<"Rest more">>], [themes |-> <<>>]}
    \cup {[sentiment |-> sc, themes |-> <<"work">>, insights |-> <<"Rest more">>] :
            sc \in Scores}

\* the entry a successful create returns: the tool description (line 129) has
\* the backend create it with status "in_progress"
CreatedEntry(input) ==
    Merge([id |-> "e9", title |-> "Untitled",
           content |-> IF Has(input, "content") THEN input.content ELSE <<>>,
           tags |-> IF Has(input, "tags") THEN input.tags ELSE <<>>,
           status |-> "in_progress",
           date |-> IF Has(input, "date") THEN input.date ELSE "2024-01-16",
           createdAt |-> "2024-01-16T08:00:00Z", updatedAt |-> "2024-01-16T08:00:00Z"],
          Pick(input, {"mood"}))

Review1 ==
    [id |-> "r1", weekStart |-> "2024-01-08", weekEnd |-> "2024-01-14",
     summary |-> "A steady week", themes |-> <<"work">>, emotionalTrend |-> "rising",
     insights |-> <<"Rest more">>, entriesCount |-> 4,
     createdAt |-> "2024-01-15T00:00:00Z"]

Profile1 ==
    [id |-> "u1", username |-> "owl", email |-> "owl@example.com",
     timezone |-> "Europe/Rome", journalingSince |-> "2023-06-01",
     totalEntries |-> 42, currentStreak |-> 3]

Style1 ==
    [currentStyle |-> "reflective", styleDescription |-> "Calm and thoughtful",
     voiceTone |-> "warm", suggestions |-> <<"Write in the morning">>]

\* the data payloads a backend endpoint can answer with
Payloads(method, arg) ==
    CASE method = "listEntries" ->
            {[entries |-> Page(size[1]),
              pagination |-> [total |-> size[2],
                              limit |-> IF Has(arg, "limit") THEN arg.limit ELSE 20,
                              offset |-> IF Has(arg, "offset") THEN arg.offset ELSE 0,
                              hasMore |-> more]] :
               size \in {sz \in (0..MaxPage) \X (0..MaxTotal) : sz[1] <= sz[2]},
               more \in BOOLEAN}
      [] method = "getEntry" ->
            {[entry |-> EntryAt(1, 3)], [entry |-> EntryAt(2, 3)]}
            \cup {[entry |-> Merge(EntryAt(1, 3), [analysis |-> a])] : a \in Analyses}
      [] method = "createEntry" ->
            {[entry |-> CreatedEntry(arg)],
             [entry |-> CreatedEntry(arg),
              metadata |-> [timezone |-> "Europe/Rome", language |-> "en",
                            writingStyle |-> "reflective"]]}
      [] method = "searchEntries" ->
            {[query |-> Prop(arg, "query"),
              results |-> [i \in 1..n |-> EntryAt(i, len + i - 1)],
              count |-> n] :
               n \in 0..MaxPage, len \in {0, PreviewLength - 1, PreviewLength}}
      [] method = "getWeeklyReview" -> {[review |-> Review1]}
      [] method = "getUserProfile" ->
            {[profile |-> Profile1],
             [profile |-> Merge(Profile1, [preferredWritingStyle |-> "reflective"])]}
      [] method = "getWritingStyle" -> {[style |-> Style1]}
      [] OTHER -> {}

\* the envelopes {status, data?, message?} around them
Envelopes(method, arg) ==
    {[status |-> "success", data |-> p] : p \in Payloads(method, arg)}
    \cup {[status |-> "error", message |-> "Partial failure", data |-> p] :
            p \in Payloads(method, arg)}
    \cup {[status |-> "error", message |-> "Entry not found"], [status |-> "success"]}

HttpErrorStatuses == {400, 500}

\* the ways axios rejects: an error status with a body, a response never
\* received, and a failure before the request left
AxiosErrors ==
    {[ok |-> FALSE, requestSent |-> TRUE,
      message |-> "Request failed with status code " \o ToString(st),
      response |-> Merge([status |-> st], body)] :
        st \in HttpErrorStatuses,
        body \in {[data |-> [status |-> "error",
                             message |-> "Entry must have at least 100 characters"]],
                  [data |-> [status |-> "error", message |-> ""]],
                  [data |-> [status |-> "error"]],
                  <<>>}}
    \cup {[ok |-> FALSE, requestSent |-> TRUE, message |-> "timeout of 30000ms exceeded"],
          [ok |-> FALSE, requestSent |-> TRUE, message |-> "Network Error"],
          [ok |-> FALSE, requestSent |-> FALSE, message |-> "Invalid URL"]}

\* everything `await this.client.get/post` can settle with
Settlements(method, arg) ==
    {[ok |-> TRUE, status |-> 200, data |-> e] : e \in Envelopes(method, arg)}
    \cup AxiosErrors

\* the arguments a call-tool request for a declared tool carries
ToolArguments(toolName) ==
    CASE toolName = "journal_create_entry" ->
            {Merge(Merge(Merge([content |-> Chars(3)], m), tg), d) :
               m \in Optional("mood", {"calm"}),
               tg \in Optional("tags", {<<"gratitude">>}),
               d \in Optional("date", {"2024-01-14"})}
      [] toolName = "journal_finalize_entry" ->
            {[entry_id |-> "e1"], [entry_id |-> "e2"]}
      [] toolName = "journal_list_entries" ->
            {Merge(Merge(l, o), f) :
               l \in Optional("limit", {5}),
               o \in Optional("offset", 0..MaxOffset),
               f \in {<<>>, [status |-> "completed", tags |-> "work"]}}
      [] toolName = "journal_get_entry" ->
            {Merge([entry_id |-> "e1"], i) : i \in Optional("include_analysis", BOOLEAN)}
      [] toolName = "journal_search" ->
            {Merge([query |-> "work"], l) : l \in Optional("limit", {10})}
      [] toolName = "journal_get_weekly_review" ->
            Optional("week", {"", "latest", "r1"})
      [] toolName = "journal_get_writing_style" -> {<<>>}

UndeclaredTools == {"journal_delete_entry", "create_entry"}
UndeclaredResources == {"journalowl://user/settings", "journalowl://user/profile/"}

DeclaredToolNames == {getAllTools[i].name : i \in 1..Len(getAllTools)}
DeclaredResourceUris == {getAllResources[i].uri : i \in 1..Len(getAllResources)}

\* call-tool requests: params { name, arguments? }
CallToolRequests ==
    UNION {{[kind |-> "callTool", name |-> n, arguments |-> a] : a \in ToolArguments(n)} :
             n \in DeclaredToolNames}
    \cup {[kind |-> "callTool", name |-> n] :
            n \in DeclaredToolNames \cup ToolCases \cup UndeclaredTools}
    \cup {[kind |-> "callTool", name |-> n, arguments |-> [entry_id |-> "e1"]] :
            n \in UndeclaredTools}

\* read-resource requests: params { uri }
ReadResourceRequests ==
    {[kind |-> "readResource", uri |-> u] :
        u \in DeclaredResourceUris \cup ResourceCases \cup UndeclaredResources}

\* process.env at start: the key unset, empty or set; the URL unset, empty or set
\* and a timeout variable, which nothing reads under any name, unset or set
Environments ==
    {Merge(Merge(k, u), tm) :
       k \in Optional("JOURNALOWL_API_KEY", {"", "jowl_sk_test"}),
       u \in Optional("JOURNALOWL_API_URL", {"", "http://localhost:3000/api/v1"}),
       tm \in Optional("JOURNALOWL_TIMEOUT", {5000})}

---------------------------------------------------------------------------
(* The state machine *)

\* the client call the request in hand makes
CallOf(request) ==
    IF request.kind = "callTool"
    THEN ToolClientCall(request.name, ArgsOf(request))
    ELSE ResourceClientCall(request.uri)

Init ==
    /\ phase = "boot"
    /\ env \in Environments
    /\ client = None
    /\ exitCode = -1
    /\ clientsMade = 0
    /\ handlers = FALSE
    /\ connection = "none"
    /\ sig = "none"
    /\ pc = "idle"
    /\ req = [kind |-> "none"]
    /\ http = None
    /\ httpCount = 0
    /\ reply = None
    /\ clientResult = None
    /\ handlerResult = None
    /\ resp = None

\* the constructor's catch that logs and goes on
ConstructorOutcome_GoesOn(made) ==
    [phase |-> "connecting", exitCode |-> -1,
     client |-> IF made.t = "throw" THEN None ELSE made.v, handlers |-> TRUE]

\* the constructor after createClient(): a throw is logged and the process
\* exits with status 1; otherwise the handlers are set up
ConstructorOutcome(made) ==
    IF made.t = "throw"
    THEN [phase |-> "exited", exitCode |-> 1, client |-> None, handlers |-> FALSE]
    ELSE [phase |-> "connecting", exitCode |-> -1, client |-> made.v, handlers |-> TRUE]

\* new JournalOwlMcpServer() and server.run() up to its await of connect
Start ==
    /\ phase = "boot"
    /\ LET outcome == ConstructorOutcome(createClient(env)) IN
         /\ phase' = outcome.phase
         /\ exitCode' = outcome.exitCode
         /\ client' = outcome.client
         /\ handlers' = outcome.handlers
    /\ clientsMade' = clientsMade + 1
    /\ UNCHANGED <<env, connection, sig>>
    /\ UNCHANGED requestVars

\* server.connect(transport) settles: the server runs, or run()'s catch logs
\* the fatal error and exits with status 1
Connected ==
    /\ phase = "connecting"
    /\ \E ok \in BOOLEAN :
         IF ok
         THEN phase' = "running" /\ connection' = "open" /\ exitCode' = exitCode
         ELSE phase' = "exited" /\ connection' = connection /\ exitCode' = 1
    /\ UNCHANGED <<env, client, clientsMade, handlers, sig>>
    /\ UNCHANGED requestVars

\* SIGINT arrives: the handler registered by setupErrorHandling calls
\* server.close() and awaits it
Sigint ==
    /\ phase \in {"connecting", "running"}
    /\ handlers
    /\ sig = "none"
    /\ sig' = "closing"
    /\ UNCHANGED <<phase, env, client, exitCode, clientsMade, handlers, connection>>
    /\ UNCHANGED requestVars

\* exit with status 0 while leaving the connection as it is
Shutdown_NoClose(conn) == [connection |-> conn, exitCode |-> 0]

\* await this.server.close(); process.exit(0)
Shutdown(conn) == [connection |-> "closed", exitCode |-> 0]

\* close() has resolved and the SIGINT handler goes on to exit
SigintExit ==
    /\ sig = "closing"
    /\ phase \in {"connecting", "running"}
    /\ connection' = Shutdown(connection).connection
    /\ exitCode' = Shutdown(connection).exitCode
    /\ phase' = "exited"
    /\ UNCHANGED <<env, client, clientsMade, handlers, sig>>
    /\ UNCHANGED requestVars

Accepting == phase = "running" /\ connection = "open" /\ pc \in {"idle", "responded"}

\* ListToolsRequestSchema handler
ListTools ==
    /\ Accepting
    /\ req' = [kind |-> "listTools"]
    /\ resp' = [t |-> "result", result |-> [tools |-> getAllTools]]
    /\ pc' = "responded"
    /\ httpCount' = 0
    /\ http' = None /\ reply' = None /\ clientResult' = None /\ handlerResult' = None
    /\ UNCHANGED procVars

\* ListResourcesRequestSchema handler
ListResources ==
    /\ Accepting
    /\ req' = [kind |-> "listResources"]
    /\ resp' = [t |-> "result", result |-> [resources |-> getAllResources]]
    /\ pc' = "responded"
    /\ httpCount' = 0
    /\ http' = None /\ reply' = None /\ clientResult' = None /\ handlerResult' = None
    /\ UNCHANGED procVars

\* A request whose handler reaches its await: the HTTP request is on the wire
Sent(request, httpRequest) ==
    /\ req' = request
    /\ http' = Merge(httpRequest,
                     [baseURL |-> client.baseURL, timeout |-> client.timeout,
                      apiKeyHeader |-> client.apiKey])
    /\ httpCount' = 1
    /\ pc' = "awaitHttp"
    /\ reply' = None /\ clientResult' = None /\ handlerResult' = None /\ resp' = None

\* A request whose handler threw before any await
Failed(request, error, response) ==
    /\ req' = request
    /\ http' = None
    /\ httpCount' = 0
    /\ pc' = "responded"
    /\ reply' = None /\ clientResult' = None
    /\ handlerResult' = error
    /\ resp' = response

\* CallToolRequestSchema handler, up to the await of the HTTP call
CallTool ==
    /\ Accepting
    /\ \E request \in CallToolRequests :
         LET begun == handleToolCallBegin(request.name, ArgsOf(request)) IN
           IF begun.t = "return"
           THEN Sent(request, begun.v)
           ELSE Failed(request, begun, CallToolResponse(request.name, begun))
    /\ UNCHANGED procVars

\* ReadResourceRequestSchema handler, up to the await of the HTTP call
ReadResource ==
    /\ Accepting
    /\ \E request \in ReadResourceRequests :
         LET begun == handleResourceReadBegin(request.uri) IN
           IF begun.t = "return"
           THEN Sent(request, begun.v)
           ELSE Failed(request, begun, ReadResourceResponse(request.uri, begun))
    /\ UNCHANGED procVars

\* The HTTP call settles: the interceptor and the client method finish, the
\* handler renders or rethrows, and the front-end answers
HttpSettled ==
    /\ phase = "running"
    /\ pc = "awaitHttp"
    /\ \E settled \in Settlements(CallOf(req).method, CallOf(req).arg) :
         LET fromClient == ClientFinish(CallOf(req).method, settled)
             outcome == IF req.kind = "callTool"
                        THEN handleToolCallEnd(req.name, ArgsOf(req), fromClient)
                        ELSE handleResourceReadEnd(req.uri, fromClient)
         IN /\ reply' = settled
            /\ clientResult' = fromClient
            /\ handlerResult' = outcome
            /\ resp' = IF req.kind = "callTool"
                       THEN CallToolResponse(req.name, outcome)
                       ELSE ReadResourceResponse(req.uri, outcome)
    /\ pc' = "responded"
    /\ UNCHANGED procVars
    /\ UNCHANGED <<req, http, httpCount>>

Next ==
    \/ Start
    \/ Connected
    \/ Sigint
    \/ SigintExit
    \/ ListTools
    \/ ListResources
    \/ CallTool
    \/ ReadResource
    \/ HttpSettled

Spec == Init /\ [][Next]_vars

\* The event loop runs the continuation of the SIGINT handler once close()
\* has resolved.
FairSpec == Spec /\ WF_vars(SigintExit)

---------------------------------------------------------------------------
(* Properties *)

Responded == phase = "running" /\ pc = "responded"
IsToolCall == req.kind = "callTool"
IsResourceRead == req.kind = "readResource"
\* the request in hand got as far as an HTTP call, which has settled
Settled == Responded /\ httpCount = 1

\* the text block of a successful response
TextOf(response) ==
    IF IsToolCall THEN response.result.content[1].text
    ELSE response.result.contents[1].text

\* C1: a call-tool request for a name that is not declared ends in the
\* unknown-tool error handed to the caller, and no HTTP request is sent at
\* any point of its handling.
C1_UnknownToolFailsWithoutBackend ==
    (IsToolCall /\ req.name \notin DeclaredToolNames) =>
        /\ pc = "responded"
        /\ httpCount = 0
        /\ resp.t = "error"
        /\ Contains(resp.message, <<"Unknown tool: ", req.name>>)

C1_Witness ==
    IsToolCall /\ req.name \in UndeclaredTools /\ pc = "responded"

\* C2: a read-resource request for an identifier other than the two declared
\* ends in the unknown-resource error handed to the caller, and no HTTP
\* request is sent while handling it.
C2_UnknownResourceFailsWithoutBackend ==
    (IsResourceRead /\ req.uri \notin {"journalowl://user/profile",
                                       "journalowl://user/recent-entries"}) =>
        /\ pc = "responded"
        /\ httpCount = 0
        /\ resp.t = "error"
        /\ Contains(resp.message, <<"Unknown resource: ", req.uri>>)

C2_Witness ==
    IsResourceRead /\ req.uri \in UndeclaredResources /\ pc = "responded"

\* C3 (as claimed): every answered request for a declared tool or a declared
\* resource has made exactly one client call, and so sent one HTTP request.
C3_ExactlyOneClientCall ==
    (Responded /\ ((IsToolCall /\ req.name \in DeclaredToolNames)
                   \/ (IsResourceRead /\ req.uri \in DeclaredResourceUris))) =>
        httpCount = 1

\* C4: an error raised by the handler, or by the transport client beneath it,
\* is answered with an internal error whose message contains the error's
\* message; a success result is only given when the handler returned.
C4_ErrorsBecomeInternalErrors ==
    (Responded /\ (IsToolCall \/ IsResourceRead)) =>
        /\ handlerResult.t = "throw" =>
              /\ resp.t = "error"
              /\ resp.code = "InternalError"
              /\ Contains(resp.message, handlerResult.message)
        /\ clientResult.t = "throw" =>
              /\ resp.t = "error"
              /\ Contains(resp.message, clientResult.message)
        /\ resp.t = "result" => handlerResult.t = "return"
        /\ resp.t \in {"result", "error"}

C4_Witness ==
    Responded /\ IsToolCall /\ clientResult.t = "throw" /\ resp.t = "error"

\* the backend's minimum content length for finalize (tool description)
MinFinalizeLength == 100
\* the content length of the entries the backend holds for finalize
StoredContentLength(entryId) == IF entryId = "e1" THEN 120 ELSE 3

ApiErrorPrefix == "JournalOwl API Error ("

\* C5 (as claimed): a finalize_entry call for an entry whose content is
\* shorter than 100 characters sends the finalize request to the backend, and
\* the caller gets the backend's error.
C5_FinalizeReachesBackend ==
    (Responded /\ IsToolCall /\ req.name = "journal_finalize_entry"
       /\ StoredContentLength(Prop(ArgsOf(req), "entry_id")) < MinFinalizeLength) =>
        /\ httpCount = 1
        /\ resp.t = "error"
        /\ Contains(resp.message, <<ApiErrorPrefix>>)

\* C6 (as claimed): when the HTTP response arrived with a success status but
\* its envelope has status "error" or no data, the client method raises the
\* backend error; it does not return and raises no other kind of error.
C6_ErrorEnvelopeRaisesBackendError ==
    (Settled /\ reply.ok
       /\ (reply.data.status = "error" \/ ~Has(reply.data, "data"))) =>
        /\ clientResult.t = "throw"
        /\ clientResult.name = "Error"
        /\ StartsWith(clientResult.message, <<ApiErrorPrefix>>)

\* C7: a failed HTTP call raises exactly one of three errors. With a response:
\* the backend error with the HTTP status and the body's message, or the
\* transport's message when the body gives none (absent or empty). Without a
\* response but with the request sent: the unreachable error. Otherwise: the
\* request-failed error with the transport's message.
C7_FailureClassification ==
    (Settled /\ ~reply.ok) =>
        /\ clientResult.t = "throw"
        /\ clientResult.name = "Error"
        /\ IF Has(reply, "response")
           THEN LET body == IF Has(reply.response, "data")
                                  /\ Has(reply.response.data, "message")
                                  /\ reply.response.data.message # ""
                            THEN reply.response.data.message
                            ELSE reply.message
                IN clientResult.message =
                     <<ApiErrorPrefix, ToString(reply.response.status), "): ", body>>
           ELSE IF reply.requestSent
           THEN clientResult.message =
                  <<"JournalOwl API is unreachable. Please check your network connection.">>
           ELSE clientResult.message = <<"Request failed: ", reply.message>>

C7_Witness ==
    /\ Settled /\ ~reply.ok
    /\ Has(reply, "response") /\ reply.requestSent
    /\ ~Has(reply.response, "data")
    /\ clientResult.t = "throw"

\* C8 (as claimed): a create_entry call whose backend call succeeds returns a
\* success result whose rendered status is in_progress.
C8_CreateRendersInProgress ==
    (Settled /\ IsToolCall /\ req.name = "journal_create_entry"
       /\ reply.ok /\ reply.data.status = "success" /\ Has(reply.data, "data")) =>
        /\ resp.t = "result"
        /\ Contains(TextOf(resp), <<"**Status:** ", "in_progress">>)

\* the page a list call got back, once the client returned one
ReturnedPage == clientResult.v
RequestedOffset == IF Has(ArgsOf(req), "offset") THEN ArgsOf(req).offset ELSE 0
HintShown == resp.t = "result" /\ MoreHint \in Range(TextOf(resp))
GotPage ==
    /\ Settled /\ clientResult.t = "return" /\ ~IsUndefined(clientResult)
    /\ CallOf(req).method = "listEntries"

\* C9 (as claimed): list_entries shows its next-offset hint exactly when
\* requested offset + returned count < total.
C9_HintIffDerivedHasMore ==
    (GotPage /\ IsToolCall) =>
        (HintShown <=>
           RequestedOffset + Len(ReturnedPage.entries) < ReturnedPage.pagination.total)

\* C9 (amended): list_entries shows its next-offset hint exactly when the
\* backend's page is not empty and the hasMore flag of the backend's pagination
\* record is true, and the hinted offset is the requested offset (0 when
\* absent) plus the number of entries returned; the recent-entries resource
\* never shows the hint.
C9_HintIffBackendHasMore ==
    GotPage =>
        IF IsToolCall
        THEN /\ HintShown <=>
                  (Len(ReturnedPage.entries) > 0 /\ ReturnedPage.pagination.hasMore)
             /\ HintShown =>
                  Contains(TextOf(resp),
                           <<MoreHint,
                             ToString(RequestedOffset + Len(ReturnedPage.entries)),
                             " to see more.">>)
        ELSE ~HintShown

C9_Witness ==
    /\ GotPage /\ IsToolCall /\ HintShown
    /\ RequestedOffset > 0
    /\ ~(RequestedOffset + Len(ReturnedPage.entries) < ReturnedPage.pagination.total)

SentimentLabels == {"Positive", "Negative", "Neutral"}
\* the rendered get_entry result carries a sentiment score
HasScore ==
    /\ Settled /\ IsToolCall /\ req.name = "journal_get_entry"
    /\ resp.t = "result"
    /\ Has(clientResult.v, "analysis") /\ Has(clientResult.v.analysis, "sentiment")
ScoreOf == clientResult.v.analysis.sentiment
LabelIs(label) == Contains(TextOf(resp), <<"**Sentiment:** ", label, " (">>)

\* C10: a get_entry result with sentiment score s renders Positive iff
\* s > 0.3, Negative iff s < -0.3 and Neutral otherwise (so 0.3 and -0.3 are
\* Neutral), and renders exactly one label. Scores are in hundredths.
C10_SentimentLabel ==
    HasScore =>
        /\ LabelIs("Positive") <=> ScoreOf > 30
        /\ LabelIs("Negative") <=> ScoreOf < -30
        /\ LabelIs("Neutral") <=> (ScoreOf >= -30 /\ ScoreOf <= 30)
        /\ Cardinality({i \in DOMAIN TextOf(resp) : TextOf(resp)[i] \in SentimentLabels}) = 1
        /\ ScoreOf = 50 => LabelIs("Positive")
        /\ ScoreOf = -50 => LabelIs("Negative")
        /\ ScoreOf = 10 => LabelIs("Neutral")

C10_Witness == HasScore /\ ScoreOf = 30 /\ LabelIs("Neutral")

\* a search that found entries has been rendered
SearchRendered ==
    /\ Settled /\ IsToolCall /\ req.name = "journal_search"
    /\ resp.t = "result"
    /\ clientResult.v.count > 0
SearchResults == clientResult.v.results
Min(a, b) == IF a < b THEN a ELSE b

\* C11: every entry of a non-empty search result is rendered with a preview
\* that is the first min(150, length) characters of its content followed at
\* once by the ellipsis, whatever the length of the content; there is one
\* preview per entry.
C11_PreviewIsFirst150ThenEllipsis ==
    SearchRendered =>
        /\ \A i \in 1..Len(SearchResults) :
              Contains(TextOf(resp),
                       <<"  ID: ", SearchResults[i].id, "\n", "  Preview: ">>
                       \o SubSeq(SearchResults[i].content, 1,
                                 Min(150, Len(SearchResults[i].content)))
                       \o <<"...">>)
        /\ Cardinality({k \in DOMAIN TextOf(resp) : TextOf(resp)[k] = "  Preview: "})
             = Len(SearchResults)
        /\ Cardinality({k \in DOMAIN TextOf(resp) : TextOf(resp)[k] = "..."})
             = Len(SearchResults)

C11_Witness ==
    /\ SearchRendered
    /\ \E i \in 1..Len(SearchResults) : Len(SearchResults[i].content) = 151
    /\ \E i \in 1..Len(SearchResults) : Len(SearchResults[i].content) = 150

\* the get_weekly_review call in hand has sent its request
ReviewRequested ==
    /\ IsToolCall /\ req.name = "journal_get_weekly_review"
    /\ pc \in {"awaitHttp", "responded"}

CredentialMissing == Falsy(Prop(env, "JOURNALOWL_API_KEY"))
ClientBuilt == Has(client, "apiKey")
Served == req.kind # "none"
\* the process ended by a failure at startup
StartupFatal == phase = "exited" /\ exitCode = 1

\* C13 (as claimed): a missing or empty credential is the only condition
\* that ends the process at startup.
C13_CredentialIsOnlyStartupFatal ==
    StartupFatal => CredentialMissing

\* C13 (amended): createClient runs once, before the handlers are set up and
\* before any request is handled; with the credential missing or empty the
\* process exits with status 1 and never handles a request; the only other
\* fatal condition of startup is a failed connect in run(), which also exits
\* with status 1 before any request; and once built the client never changes
\* and every HTTP request carries its key, base URL and timeout.
C13_ClientBuiltOnceAtStartup ==
    /\ [](/\ clientsMade <= 1
          /\ handlers => (clientsMade = 1 /\ ClientBuilt)
          /\ Served => (handlers /\ ClientBuilt)
          /\ CredentialMissing =>
                (~Served /\ ~handlers /\ phase \in {"boot", "exited"}
                   /\ (phase = "exited" => exitCode = 1))
          /\ StartupFatal =>
                (~Served /\ (CredentialMissing \/ (ClientBuilt /\ connection = "none")))
          /\ (phase = "exited" /\ ~StartupFatal) => exitCode = 0
          /\ pc = "awaitHttp" =>
                (/\ http.apiKeyHeader = client.apiKey
                 /\ http.baseURL = client.baseURL
                 /\ http.timeout = client.timeout))
    /\ [][ClientBuilt => client' = client]_vars

C13_Witness ==
    /\ phase = "running" /\ clientsMade = 1 /\ pc = "awaitHttp"
    /\ http.apiKeyHeader = env.JOURNALOWL_API_KEY

\* C14 (as claimed): the client takes its timeout from the environment when
\* the override is set.
C14_TimeoutFromEnvironment ==
    (ClientBuilt /\ Has(env, "JOURNALOWL_TIMEOUT")) =>
        client.timeout = env.JOURNALOWL_TIMEOUT

\* C14 (amended): the client takes its key from JOURNALOWL_API_KEY, its base
\* URL from JOURNALOWL_API_URL when that is set and not empty and the default
\* base URL otherwise, and its timeout is always the default 30000 ms: the
\* environment is not read for a timeout.
C14_ClientConfiguration ==
    ClientBuilt =>
        /\ client.apiKey = env.JOURNALOWL_API_KEY
        /\ client.baseURL =
             (IF Has(env, "JOURNALOWL_API_URL") /\ env.JOURNALOWL_API_URL # ""
              THEN env.JOURNALOWL_API_URL
              ELSE "https://journalai-backend-production.up.railway.app/api/v1")
        /\ client.timeout = 30000

C14_Witness ==
    /\ phase = "running" /\ ClientBuilt
    /\ Has(env, "JOURNALOWL_API_URL") /\ client.baseURL = "http://localhost:3000/api/v1"
    /\ Has(env, "JOURNALOWL_TIMEOUT") /\ client.timeout = 30000

\* C15: once the server runs, an interrupt leads to exit with status 0, the
\* connection being closed by then; the process never has exit status 0 with
\* the connection open.
C15_InterruptClosesThenExitsZero ==
    /\ [](exitCode = 0 => (phase = "exited" /\ connection = "closed" /\ sig = "closing"))
    /\ (phase = "running" /\ sig = "closing") ~> (phase = "exited" /\ exitCode = 0)

C15_Witness ==
    phase = "exited" /\ exitCode = 0 /\ connection = "closed" /\ Served

\* the request in hand was refused by the dispatcher's default case
UnknownToolError ==
    /\ pc = "responded" /\ handlerResult.t = "throw"
    /\ StartsWith(handlerResult.message, <<"Unknown tool: ">>)
UnknownResourceError ==
    /\ pc = "responded" /\ handlerResult.t = "throw"
    /\ StartsWith(handlerResult.message, <<"Unknown resource: ">>)

\* C16: a tool name is accepted by call-tool dispatch exactly when it is the
\* name of a descriptor of list-tools, whose names are pairwise distinct; a
\* resource identifier is accepted by read-resource dispatch exactly when it
\* is the uri of a descriptor of list-resources; and list-tools and
\* list-resources answer with those descriptors.
C16_CatalogMatchesDispatch ==
    /\ IsToolCall =>
          (~UnknownToolError <=> \E i \in 1..Len(getAllTools) : getAllTools[i].name = req.name)
    /\ IsResourceRead =>
          (~UnknownResourceError <=>
              \E i \in 1..Len(getAllResources) : getAllResources[i].uri = req.uri)
    /\ \A i, j \in 1..Len(getAllTools) :
          getAllTools[i].name = getAllTools[j].name => i = j
    /\ (req.kind = "listTools" /\ pc = "responded") => resp.result.tools = getAllTools
    /\ (req.kind = "listResources" /\ pc = "responded") =>
          resp.result.resources = getAllResources

C16_Witness ==
    /\ IsToolCall /\ req.name = "journal_finalize_entry" /\ pc = "responded"
    /\ ~UnknownToolError

====
